---- MODULE Spec2Model ----
(***************************************************************************)
(* Pre-commit staged-file command planner (processStagedFiles) and the     *)
(* hook runner that consumes its plan.                                     *)
(*                                                                         *)
(* A string is a sequence of one-character strings, so that               *)
(* String.prototype.replace, Array.prototype.join and glob matching act    *)
(* on characters as they do in the program.                                *)
(***************************************************************************)
EXTENDS Integers, Sequences, FiniteSets, TLC

VARIABLES stagedFiles, cwd, commands, history, pc, idx, exits

vars == <<stagedFiles, cwd, commands, history, pc, idx, exits>>

(***************************************************************************)
(* Bounds of the model.                                                    *)
(***************************************************************************)
MaxFiles == 2
MaxCalls == 2
MaxRunFiles == 2

(***************************************************************************)
(* String helpers (JavaScript String / Array built-ins used by the code).  *)
(***************************************************************************)
RECURSIVE Flatten(_)
Flatten(ss) == IF ss = <<>> THEN <<>> ELSE Head(ss) \o Flatten(Tail(ss))

\* Array.prototype.join(sep)
RECURSIVE join(_, _)
join(ss, sep) ==
  IF ss = <<>> THEN <<>>
  ELSE IF Len(ss) = 1 THEN ss[1]
  ELSE ss[1] \o sep \o join(Tail(ss), sep)

\* String.prototype.indexOf(pat), 1-based; 0 when pat does not occur
indexOf(s, pat) ==
  LET hits == {i \in 1..(Len(s) - Len(pat) + 1) : SubSeq(s, i, i + Len(pat) - 1) = pat}
  IN IF hits = {} THEN 0 ELSE CHOOSE i \in hits : \A j \in hits : i <= j

\* String.prototype.replace(pat, rep) with a string pattern: the FIRST
\* occurrence of pat, wherever it is, is replaced
replace(s, pat, rep) ==
  LET i == indexOf(s, pat)
  IN IF i = 0 THEN s
     ELSE SubSeq(s, 1, i - 1) \o rep \o SubSeq(s, i + Len(pat), Len(s))

\* [...new Set(xs)]: first occurrences, in insertion order
RECURSIVE setOrder(_, _)
setOrder(xs, seen) ==
  IF xs = <<>> THEN <<>>
  ELSE IF Head(xs) \in seen THEN setOrder(Tail(xs), seen)
  ELSE <<Head(xs)>> \o setOrder(Tail(xs), seen \cup {Head(xs)})

(***************************************************************************)
(* Glob matching.  Every pattern of the program has the shape              *)
(* "**/*.{e1,...,en}" (or "**/*.e"); a pattern is modelled by the sequence *)
(* of its extension alternatives.  micromatch is called without options,   *)
(* so dot = false: neither "**" nor "*" matches a path segment that        *)
(* begins with ".".                                                        *)
(***************************************************************************)
\* "**" consumes p[1..n]: no consumed position may be the start of a
\* dot-prefixed segment
globstar(p, n) ==
  \A k \in 1..n :
    /\ ~(k = 1 /\ p[k] = ".")
    /\ ~(p[k] = "/" /\ k + 1 <= Len(p) /\ p[k + 1] = ".")

\* "*.{exts}" matches the whole of q: one segment, not dot-prefixed,
\* ending in "." and one of the extensions
starDotExt(q, exts) ==
  /\ q # <<>>
  /\ q[1] # "."
  /\ \E j \in 1..Len(exts) :
       LET e == exts[j]
           n == Len(q) - Len(e) - 1
       IN /\ n >= 0
          /\ SubSeq(q, n + 1, Len(q)) = <<".">> \o e
          /\ \A k \in 1..n : q[k] # "/"

\* a buggy variant: dot-prefixed segments are matched too (dot = true)
isMatchDot(p, exts) ==
  \E i \in 0..Len(p) :
    /\ i = 0 \/ p[i] = "/"
    /\ LET q == SubSeq(p, i + 1, Len(p))
       IN /\ q # <<>>
          /\ \E j \in 1..Len(exts) :
               LET e == exts[j]
                   n == Len(q) - Len(e) - 1
               IN /\ n >= 0
                  /\ SubSeq(q, n + 1, Len(q)) = <<".">> \o e
                  /\ \A k \in 1..n : q[k] # "/"

\* picomatch's matcher for "**/*.{exts}": the path is split after an
\* optional directory part ("" | "/" | globstar "/") and the rest is the
\* file name
isMatch(p, exts) ==
  \E i \in 0..Len(p) :
    /\ \/ i = 0
       \/ i = 1 /\ p[1] = "/"
       \/ i >= 1 /\ p[i] = "/" /\ globstar(p, i - 1)
    /\ starDotExt(SubSeq(p, i + 1, Len(p)), exts)

\* micromatch(list, patterns): the matched items, each once, in the order
\* in which they were first kept (pattern by pattern, list order inside)
micromatch(list, patterns) ==
  setOrder(Flatten([k \in 1..Len(patterns) |->
                      SelectSeq(list, LAMBDA f : isMatch(f, patterns[k]))]), {})

(***************************************************************************)
(* The program.                                                            *)
(***************************************************************************)
\* a buggy variant: every relative path is given a "./" prefix
getFilesForPatternsDotSlash(files, patterns) ==
  LET matched == micromatch(files, patterns)
  IN [i \in 1..Len(matched) |->
        IF matched[i] # <<>> /\ matched[i][1] = "/"
        THEN replace(matched[i], cwd, <<".">>)
        ELSE <<".", "/">> \o matched[i]]

\* process.cwd() is read from the ambient process state
getFilesForPatterns(files, patterns) ==
  LET matched == micromatch(files, patterns)
  IN [i \in 1..Len(matched) |-> replace(matched[i], cwd, <<".">>)]

DataPatterns == << <<<<"j", "s", "o", "n">>, <<"y", "a", "m", "l">>>> >>
HtmlPatterns == << <<<<"h", "t", "m", "l">>>> >>
RustPatterns == << <<<<"r", "s">>>> >>
TypescriptPatterns == << <<<<"t", "s">>, <<"t", "s", "x">>>> >>
JavascriptPatterns == << <<<<"j", "s">>, <<"c", "j", "s">>, <<"m", "j", "s">>>> >>

CargoFmt == <<"c", "a", "r", "g", "o", " ", "f", "m", "t", " ", "-", "-", "m", "a", "n", "i", "f", "e", "s", "t", "-", "p", "a", "t", "h", "=", ".", "/", "s", "r", "c", "-", "t", "a", "u", "r", "i", "/", "C", "a", "r", "g", "o", ".", "t", "o", "m", "l">>
CargoCheck == <<"c", "a", "r", "g", "o", " ", "c", "h", "e", "c", "k", " ", "-", "-", "m", "a", "n", "i", "f", "e", "s", "t", "-", "p", "a", "t", "h", "=", ".", "/", "s", "r", "c", "-", "t", "a", "u", "r", "i", "/", "C", "a", "r", "g", "o", ".", "t", "o", "m", "l", " ", "-", "-", "c", "o", "l", "o", "r", "=", "a", "l", "w", "a", "y", "s">>
PrettierPrefix == <<"p", "n", "p", "m", " ", "p", "r", "e", "t", "t", "i", "e", "r", " ", "-", "-", "w", "r", "i", "t", "e", " ">>
Tsc == <<"p", "n", "p", "m", " ", "t", "s", "c", " ", "-", "-", "p", "r", "e", "t", "t", "y", " ", "-", "p", " ", ".", "/", "t", "s", "c", "o", "n", "f", "i", "g", ".", "j", "s", "o", "n">>
EslintPrefix == <<"p", "n", "p", "m", " ", "e", "s", "l", "i", "n", "t", " ">>

\* a buggy variant: the script files come first
filesToEslintJsFirst(typescriptFiles, javascriptFiles) ==
  javascriptFiles \o typescriptFiles

filesToEslint(typescriptFiles, javascriptFiles) ==
  typescriptFiles \o javascriptFiles

\* a buggy variant: the typed-script files are left out
filesToPrettifyNoTs(dataFiles, htmlFiles, typescriptFiles, javascriptFiles) ==
  dataFiles \o htmlFiles \o javascriptFiles

filesToPrettify(dataFiles, htmlFiles, typescriptFiles, javascriptFiles) ==
  dataFiles \o htmlFiles \o typescriptFiles \o javascriptFiles

\* commands.push(...) under an if
pushIf(cond, cmds, new) == IF cond THEN cmds \o new ELSE cmds

\* a buggy variant: tsc is run whenever there is something to lint
processStagedFilesTscOnLint(files) ==
  LET dataFiles == getFilesForPatterns(files, DataPatterns)
      htmlFiles == getFilesForPatterns(files, HtmlPatterns)
      rustFiles == getFilesForPatterns(files, RustPatterns)
      typescriptFiles == getFilesForPatterns(files, TypescriptPatterns)
      javascriptFiles == getFilesForPatterns(files, JavascriptPatterns)
      toEslint == filesToEslint(typescriptFiles, javascriptFiles)
      toPrettify == filesToPrettify(dataFiles, htmlFiles, typescriptFiles, javascriptFiles)
      c0 == <<>>
      c1 == pushIf(Len(rustFiles) # 0, c0, <<CargoFmt, CargoCheck>>)
      c2 == pushIf(Len(toPrettify) # 0, c1, <<PrettierPrefix \o join(toPrettify, <<" ">>)>>)
      c3 == pushIf(Len(toEslint) # 0, c2, <<Tsc>>)
      c4 == pushIf(Len(toEslint) # 0, c3, <<EslintPrefix \o join(toEslint, <<" ">>)>>)
  IN c4

\* a buggy variant: eslint is pushed before tsc
processStagedFilesLintFirst(files) ==
  LET dataFiles == getFilesForPatterns(files, DataPatterns)
      htmlFiles == getFilesForPatterns(files, HtmlPatterns)
      rustFiles == getFilesForPatterns(files, RustPatterns)
      typescriptFiles == getFilesForPatterns(files, TypescriptPatterns)
      javascriptFiles == getFilesForPatterns(files, JavascriptPatterns)
      toEslint == filesToEslint(typescriptFiles, javascriptFiles)
      toPrettify == filesToPrettify(dataFiles, htmlFiles, typescriptFiles, javascriptFiles)
      c0 == <<>>
      c1 == pushIf(Len(rustFiles) # 0, c0, <<CargoFmt, CargoCheck>>)
      c2 == pushIf(Len(toPrettify) # 0, c1, <<PrettierPrefix \o join(toPrettify, <<" ">>)>>)
      c3 == pushIf(Len(toEslint) # 0, c2, <<EslintPrefix \o join(toEslint, <<" ">>)>>)
      c4 == pushIf(Len(typescriptFiles) # 0, c3, <<Tsc>>)
  IN c4

\* a buggy variant: the commands array is shared between calls
processStagedFilesShared(files) ==
  LET dataFiles == getFilesForPatterns(files, DataPatterns)
      htmlFiles == getFilesForPatterns(files, HtmlPatterns)
      rustFiles == getFilesForPatterns(files, RustPatterns)
      typescriptFiles == getFilesForPatterns(files, TypescriptPatterns)
      javascriptFiles == getFilesForPatterns(files, JavascriptPatterns)
      toEslint == filesToEslint(typescriptFiles, javascriptFiles)
      toPrettify == filesToPrettify(dataFiles, htmlFiles, typescriptFiles, javascriptFiles)
      c0 == commands
      c1 == pushIf(Len(rustFiles) # 0, c0, <<CargoFmt, CargoCheck>>)
      c2 == pushIf(Len(toPrettify) # 0, c1, <<PrettierPrefix \o join(toPrettify, <<" ">>)>>)
      c3 == pushIf(Len(typescriptFiles) # 0, c2, <<Tsc>>)
      c4 == pushIf(Len(toEslint) # 0, c3, <<EslintPrefix \o join(toEslint, <<" ">>)>>)
  IN c4

processStagedFiles(files) ==
  LET dataFiles == getFilesForPatterns(files, DataPatterns)
      htmlFiles == getFilesForPatterns(files, HtmlPatterns)
      rustFiles == getFilesForPatterns(files, RustPatterns)
      typescriptFiles == getFilesForPatterns(files, TypescriptPatterns)
      javascriptFiles == getFilesForPatterns(files, JavascriptPatterns)
      toEslint == filesToEslint(typescriptFiles, javascriptFiles)
      toPrettify == filesToPrettify(dataFiles, htmlFiles, typescriptFiles, javascriptFiles)
      c0 == <<>>
      c1 == pushIf(Len(rustFiles) # 0, c0, <<CargoFmt, CargoCheck>>)
      c2 == pushIf(Len(toPrettify) # 0, c1, <<PrettierPrefix \o join(toPrettify, <<" ">>)>>)
      c3 == pushIf(Len(typescriptFiles) # 0, c2, <<Tsc>>)
      c4 == pushIf(Len(toEslint) # 0, c3, <<EslintPrefix \o join(toEslint, <<" ">>)>>)
  IN c4

(***************************************************************************)
(* Inputs.                                                                 *)
(***************************************************************************)
Cwds == {<<"/", "w">>, <<"/", "o">>}

Paths ==
  { <<"s", "r", "c", "/", "a", ".", "t", "s">>, <<"s", "r", "c", "/", "a", ".", "r", "s">>, <<"c", "o", "n", "f", "i", "g", ".", "j", "s", "o", "n">>, <<"i", "n", "d", "e", "x", ".", "h", "t", "m", "l">>, <<"R", "E", "A", "D", "M", "E", ".", "m", "d">>,
    <<"/", "w", "/", "d", ".", "c", "j", "s">>, <<"/", "x", "/", "w", "/", "a", ".", "t", "s", "x">>, <<"/", "x", ".", "/", "a", ".", "t", "s", "x">>, <<"/", "o", "/", "b", ".", "m", "j", "s">>,
    <<".", "e", "s", "l", "i", "n", "t", "r", "c", ".", "j", "s", "o", "n">>, <<".", "g", "i", "t", "h", "u", "b", "/", "c", "i", ".", "y", "a", "m", "l">>, <<".", "/", "s", "r", "c", "/", "a", ".", "t", "s">>,
    <<"c", ".", "j", "s">>, <<"e", ".", "y", "a", "m", "l">> }

RunPaths ==
  { <<"s", "r", "c", "/", "a", ".", "t", "s">>, <<"s", "r", "c", "/", "a", ".", "r", "s">>, <<"c", "o", "n", "f", "i", "g", ".", "j", "s", "o", "n">>, <<"R", "E", "A", "D", "M", "E", ".", "m", "d">>, <<"/", "o", "/", "b", ".", "m", "j", "s">> }

SeqsUpTo(S, n) == UNION {[1..k -> S] : k \in 0..n}

(***************************************************************************)
(* The planner: one invocation of the hook per commit attempt, each in a   *)
(* process with its own working directory.  history records the calls:     *)
(* the working directory and input of each, and its result.                *)
(***************************************************************************)
Init ==
  /\ stagedFiles \in SeqsUpTo(Paths, MaxFiles)
  /\ cwd \in Cwds
  /\ commands = <<>>
  /\ history = <<>>
  /\ pc = "start"
  /\ idx = 0
  /\ exits = <<>>

Call ==
  /\ pc \in {"start", "planned"}
  /\ Len(history) < MaxCalls
  /\ commands' = processStagedFiles(stagedFiles)
  /\ history' = Append(history, [cwd |-> cwd, input |-> stagedFiles, plan |-> commands'])
  /\ pc' = "planned"
  /\ UNCHANGED <<stagedFiles, cwd, idx, exits>>

Relaunch(c) ==
  /\ pc = "planned"
  /\ Len(history) < MaxCalls
  /\ cwd' = c
  /\ commands' = <<>>
  /\ pc' = "start"
  /\ UNCHANGED <<stagedFiles, history, idx, exits>>

Next ==
  \/ Call
  \/ \E c \in Cwds : Relaunch(c)

Spec == Init /\ [][Next]_vars

(***************************************************************************)
(* The hook runner that consumes the plan: it is handed the result of      *)
(* processStagedFiles, runs the commands one after the other and stops at  *)
(* the first non-zero exit status.                                         *)
(***************************************************************************)
ExitCodes == {0, 1}

InitRun ==
  /\ stagedFiles \in SeqsUpTo(RunPaths, MaxRunFiles)
  /\ cwd \in Cwds
  /\ commands = processStagedFiles(stagedFiles)
  /\ history = <<[cwd |-> cwd, input |-> stagedFiles, plan |-> commands]>>
  /\ pc = "planned"
  /\ idx = 0
  /\ exits = <<>>

Begin ==
  /\ pc = "planned"
  /\ pc' = "idle"
  /\ idx' = 1
  /\ UNCHANGED <<stagedFiles, cwd, commands, history, exits>>

StartCmd ==
  /\ pc = "idle"
  /\ idx <= Len(commands)
  /\ pc' = "busy"
  /\ UNCHANGED <<stagedFiles, cwd, commands, history, idx, exits>>

\* a buggy variant: a failing command does not stop the sequence
ExitIgnoreFailure(code) ==
  /\ pc = "busy"
  /\ exits' = Append(exits, [cmd |-> idx, code |-> code])
  /\ idx' = idx + 1
  /\ pc' = "idle"
  /\ UNCHANGED <<stagedFiles, cwd, commands, history>>

Exit(code) ==
  /\ pc = "busy"
  /\ exits' = Append(exits, [cmd |-> idx, code |-> code])
  /\ IF code = 0
     THEN idx' = idx + 1 /\ pc' = "idle"
     ELSE idx' = idx /\ pc' = "aborted"
  /\ UNCHANGED <<stagedFiles, cwd, commands, history>>

Commit ==
  /\ pc = "idle"
  /\ idx > Len(commands)
  /\ pc' = "committed"
  /\ UNCHANGED <<stagedFiles, cwd, commands, history, idx, exits>>

NextRun ==
  \/ Begin
  \/ StartCmd
  \/ \E code \in ExitCodes : Exit(code)
  \/ Commit

SpecRun == InitRun /\ [][NextRun]_vars /\ WF_vars(NextRun)

(***************************************************************************)
(* Vocabulary of the properties.                                           *)
(***************************************************************************)
Range(s) == {s[i] : i \in DOMAIN s}

hasPrefix(s, pre) == Len(pre) <= Len(s) /\ SubSeq(s, 1, Len(pre)) = pre

hasSuffix(s, suf) == Len(suf) <= Len(s) /\ SubSeq(s, Len(s) - Len(suf) + 1, Len(s)) = suf

\* String.prototype.split(sep) for a one-character separator
RECURSIVE split(_, _)
split(s, sep) ==
  LET i == indexOf(s, <<sep>>)
  IN IF i = 0 THEN <<s>>
     ELSE <<SubSeq(s, 1, i - 1)>> \o split(SubSeq(s, i + 1, Len(s)), sep)

Segments(p) == split(p, "/")

NoDotSegment(p) ==
  LET segs == Segments(p)
  IN \A k \in DOMAIN segs : ~hasPrefix(segs[k], <<".">>)

Exts(patterns) == UNION {Range(patterns[k]) : k \in DOMAIN patterns}

EndsIn(p, patterns) == \E e \in Exts(patterns) : hasSuffix(p, <<".">> \o e)

\* the glob "**/*.{exts}" as a statement about segments
Globbed(p, patterns) == EndsIn(p, patterns) /\ NoDotSegment(p)

BasePatterns ==
  {DataPatterns, HtmlPatterns, RustPatterns, TypescriptPatterns, JavascriptPatterns}

Staged(patterns) == {p \in Range(stagedFiles) : Globbed(p, patterns)}

Planned == pc = "planned"

Has(cmd) == \E i \in DOMAIN commands : commands[i] = cmd

HasPrettier == \E i \in DOMAIN commands : hasPrefix(commands[i], PrettierPrefix)

HasEslint == \E i \in DOMAIN commands : hasPrefix(commands[i], EslintPrefix)

\* the words after the command's prefix
Args(cmd, prefix) == split(SubSeq(cmd, Len(prefix) + 1, Len(cmd)), " ")

PrettierArgs ==
  LET i == CHOOSE i \in DOMAIN commands : hasPrefix(commands[i], PrettierPrefix)
  IN Args(commands[i], PrettierPrefix)

EslintArgs ==
  LET i == CHOOSE i \in DOMAIN commands : hasPrefix(commands[i], EslintPrefix)
  IN Args(commands[i], EslintPrefix)

NoRepeat(s) == \A i, j \in DOMAIN s : i # j => s[i] # s[j]

\* position of a command in the fixed order, 0 for an unknown command
Rank(cmd) ==
  IF cmd = CargoFmt THEN 1
  ELSE IF cmd = CargoCheck THEN 2
  ELSE IF hasPrefix(cmd, PrettierPrefix) THEN 3
  ELSE IF cmd = Tsc THEN 4
  ELSE IF hasPrefix(cmd, EslintPrefix) THEN 5
  ELSE 0

(***************************************************************************)
(* Properties.                                                             *)
(***************************************************************************)
\* C1: each command of the plan is present if and only if its bucket of
\* staged files is non-empty; no matching path gives the empty plan.
PlanIffBucket ==
  Planned =>
    /\ Has(CargoFmt) <=> Staged(RustPatterns) # {}
    /\ Has(CargoCheck) <=> Staged(RustPatterns) # {}
    /\ HasPrettier <=>
         Staged(DataPatterns) \cup Staged(HtmlPatterns)
           \cup Staged(TypescriptPatterns) \cup Staged(JavascriptPatterns) # {}
    /\ Has(Tsc) <=> Staged(TypescriptPatterns) # {}
    /\ HasEslint <=> Staged(TypescriptPatterns) \cup Staged(JavascriptPatterns) # {}
    /\ (\A pats \in BasePatterns : Staged(pats) = {}) => commands = <<>>

PlanIffBucketWitness ==
  /\ Planned
  /\ Has(CargoFmt) /\ HasPrettier /\ ~Has(Tsc) /\ HasEslint
  /\ Staged(TypescriptPatterns) = {}

\* C2: the plan is a subsequence of the fixed order cargo fmt, cargo check,
\* prettier, tsc, eslint, so no command string occurs twice.
PlanOrder ==
  Planned =>
    /\ \A i \in DOMAIN commands : Rank(commands[i]) \in 1..5
    /\ \A i, j \in DOMAIN commands : i < j => Rank(commands[i]) < Rank(commands[j])
    /\ NoRepeat(commands)

PlanOrderWitness ==
  /\ Planned
  /\ Len(commands) = 5
  /\ Rank(commands[4]) = 4 /\ Rank(commands[5]) = 5

\* C3: the runner executes the commands one at a time in plan order, stops
\* at the first non-zero exit without retry and aborts; it commits only
\* when every command ran and succeeded; every run ends committed or aborted.
RunSafety ==
  /\ \A k \in DOMAIN exits : exits[k].cmd = k
  /\ \A k \in DOMAIN exits : exits[k].code # 0 => k = Len(exits) /\ pc = "aborted"
  /\ pc = "busy" => idx = Len(exits) + 1 /\ idx <= Len(commands)
  /\ pc = "committed" =>
       Len(exits) = Len(commands) /\ \A k \in DOMAIN exits : exits[k].code = 0
  /\ pc = "aborted" => exits # <<>> /\ exits[Len(exits)].code # 0

RunEnded == pc \in {"committed", "aborted"}

RunnerStopsAtFirstFailure ==
  /\ []RunSafety
  /\ [][RunEnded => pc' = pc /\ exits' = exits]_vars
  /\ <>RunEnded

RunnerWitness ==
  /\ pc = "aborted"
  /\ Len(exits) = 2
  /\ Len(commands) > 2

\* C4 (as claimed): a relative staged path is passed to prettier and eslint
\* with a "./" prefix.
RelativeGetsDotSlash ==
  /\ Planned /\ stagedFiles = <<<<"s", "r", "c", "/", "a", ".", "t", "s">>, <<"s", "r", "c", "/", "a", ".", "r", "s">>>> =>
       commands = <<CargoFmt, CargoCheck,
                    PrettierPrefix \o <<".", "/", "s", "r", "c", "/", "a", ".", "t", "s">>,
                    Tsc,
                    EslintPrefix \o <<".", "/", "s", "r", "c", "/", "a", ".", "t", "s">>>>
  /\ Planned /\ stagedFiles = <<<<"c", "o", "n", "f", "i", "g", ".", "j", "s", "o", "n">>, <<"i", "n", "d", "e", "x", ".", "h", "t", "m", "l">>>> =>
       commands = <<PrettierPrefix \o <<".", "/", "c", "o", "n", "f", "i", "g", ".", "j", "s", "o", "n", " ", ".", "/", "i", "n", "d", "e", "x", ".", "h", "t", "m", "l">>>>

\* C4 (amended): a staged path that does not contain the working directory,
\* a relative path such as "src/a.ts" in particular, is passed to prettier
\* and eslint unchanged, without a "./" prefix; "<cwd>/d.cjs" is passed as
\* "./d.cjs".
RelativeStaysAsStaged ==
  /\ Planned /\ stagedFiles = <<<<"s", "r", "c", "/", "a", ".", "t", "s">>, <<"s", "r", "c", "/", "a", ".", "r", "s">>>> =>
       commands = <<CargoFmt, CargoCheck,
                    PrettierPrefix \o <<"s", "r", "c", "/", "a", ".", "t", "s">>,
                    Tsc,
                    EslintPrefix \o <<"s", "r", "c", "/", "a", ".", "t", "s">>>>
  /\ Planned /\ stagedFiles = <<<<"c", "o", "n", "f", "i", "g", ".", "j", "s", "o", "n">>, <<"i", "n", "d", "e", "x", ".", "h", "t", "m", "l">>>> =>
       commands = <<PrettierPrefix \o <<"c", "o", "n", "f", "i", "g", ".", "j", "s", "o", "n", " ", "i", "n", "d", "e", "x", ".", "h", "t", "m", "l">>>>
  /\ Planned /\ stagedFiles = <<<<"/", "w", "/", "d", ".", "c", "j", "s">>, <<"s", "r", "c", "/", "a", ".", "r", "s">>>> /\ cwd = <<"/", "w">> =>
       commands = <<CargoFmt, CargoCheck,
                    PrettierPrefix \o <<".", "/", "d", ".", "c", "j", "s">>,
                    EslintPrefix \o <<".", "/", "d", ".", "c", "j", "s">>>>
  /\ Planned /\ HasEslint =>
       LET args == Range(EslintArgs)
       IN \A p \in Range(stagedFiles) :
            /\ indexOf(p, cwd) = 0
            /\ Globbed(p, TypescriptPatterns) \/ Globbed(p, JavascriptPatterns)
            => p \in args

RelativeStaysAsStagedWitness ==
  /\ Planned
  /\ stagedFiles = <<<<"s", "r", "c", "/", "a", ".", "t", "s">>, <<"s", "r", "c", "/", "a", ".", "r", "s">>>>
  /\ Len(commands) = 5

\* C5 (as claimed): a matched path is rewritten only when the working
\* directory is its leading prefix (replaced by "."); every other matched
\* path is returned unmodified.
StripLeadingCwd(p) ==
  IF hasPrefix(p, cwd) THEN <<".">> \o SubSeq(p, Len(cwd) + 1, Len(p)) ELSE p

OnlyLeadingCwdStripped ==
  Planned =>
    \A pats \in BasePatterns :
      LET matched == micromatch(stagedFiles, pats)
      IN getFilesForPatterns(stagedFiles, pats) =
           [i \in DOMAIN matched |-> StripLeadingCwd(matched[i])]

\* C6 (as claimed): a staged path is in a bucket exactly when it ends in
\* one of the bucket's extensions, whatever its directory part.
ClassifiedByExtensionAlone ==
  Planned =>
    \A pats \in BasePatterns :
      LET bucket == Range(micromatch(stagedFiles, pats))
      IN \A p \in Range(stagedFiles) : EndsIn(p, pats) <=> p \in bucket

\* C6 (amended): a staged path is in a bucket exactly when it ends in one of
\* the bucket's extensions and none of its segments (directories or file
\* name) begins with "."; any other path is in no bucket; the five base
\* buckets are pairwise disjoint; empty input gives empty buckets.
ClassifiedByExtensionNoDot ==
  Planned =>
    LET pats == <<DataPatterns, HtmlPatterns, RustPatterns,
                  TypescriptPatterns, JavascriptPatterns>>
        bucket == <<Range(micromatch(stagedFiles, DataPatterns)),
                    Range(micromatch(stagedFiles, HtmlPatterns)),
                    Range(micromatch(stagedFiles, RustPatterns)),
                    Range(micromatch(stagedFiles, TypescriptPatterns)),
                    Range(micromatch(stagedFiles, JavascriptPatterns))>>
        rewritten == <<Range(getFilesForPatterns(stagedFiles, DataPatterns)),
                       Range(getFilesForPatterns(stagedFiles, HtmlPatterns)),
                       Range(getFilesForPatterns(stagedFiles, RustPatterns)),
                       Range(getFilesForPatterns(stagedFiles, TypescriptPatterns)),
                       Range(getFilesForPatterns(stagedFiles, JavascriptPatterns))>>
    IN /\ \A a \in 1..5 :
            \A p \in Range(stagedFiles) : Globbed(p, pats[a]) <=> p \in bucket[a]
       /\ \A a \in 1..5 : bucket[a] \subseteq Range(stagedFiles)
       /\ \A a, b \in 1..5 : a # b => bucket[a] \cap bucket[b] = {}
       /\ \A a, b \in 1..5 : a # b => rewritten[a] \cap rewritten[b] = {}
       /\ stagedFiles = <<>> => \A a \in 1..5 : rewritten[a] = {}

ClassifiedWitness ==
  /\ Planned
  /\ \E p, q \in Range(stagedFiles) :
       /\ EndsIn(p, DataPatterns) /\ ~NoDotSegment(p)
       /\ Globbed(q, DataPatterns)
  /\ Len(commands) = 1

CommandArguments ==
  Planned =>
    LET data == getFilesForPatterns(stagedFiles, DataPatterns)
        html == getFilesForPatterns(stagedFiles, HtmlPatterns)
        rust == getFilesForPatterns(stagedFiles, RustPatterns)
        ts == getFilesForPatterns(stagedFiles, TypescriptPatterns)
        js == getFilesForPatterns(stagedFiles, JavascriptPatterns)
    IN /\ \A i \in DOMAIN commands :
            /\ Rank(commands[i]) = 3 =>
                 commands[i] = PrettierPrefix \o join(data \o html \o ts \o js, <<" ">>)
            /\ Rank(commands[i]) = 5 =>
                 commands[i] = EslintPrefix \o join(ts \o js, <<" ">>)
            /\ Rank(commands[i]) \in 1..5
       /\ HasPrettier =>
            /\ PrettierArgs = data \o html \o ts \o js
            /\ Range(PrettierArgs) \cap Range(rust) = {}
       /\ HasEslint =>
            /\ EslintArgs = ts \o js
            /\ Range(EslintArgs) \cap Range(rust) = {}

CommandArgumentsWitness ==
  /\ Planned
  /\ Len(commands) = 3
  /\ Len(stagedFiles) = 2
  /\ Globbed(stagedFiles[1], TypescriptPatterns)
  /\ Globbed(stagedFiles[2], DataPatterns)
  /\ PrettierArgs = <<stagedFiles[2], stagedFiles[1]>>
  /\ EslintArgs = <<stagedFiles[1]>>

\* C9 (as claimed): no path string appears more than once in the argument
\* list of the prettier command, nor in that of the eslint command.
ArgumentsDeduplicated ==
  Planned =>
    /\ HasPrettier => NoRepeat(PrettierArgs)
    /\ HasEslint => NoRepeat(EslintArgs)

\* C10: tsc implies prettier and eslint; eslint implies prettier, and every
\* eslint argument is a prettier argument; cargo fmt and cargo check come
\* together, first and second; a plan has at most five commands.
PlanDependencies ==
  Planned =>
    /\ Has(Tsc) => HasPrettier /\ HasEslint
    /\ HasEslint => HasPrettier /\ Range(EslintArgs) \subseteq Range(PrettierArgs)
    /\ Has(CargoFmt) <=> Has(CargoCheck)
    /\ Has(CargoFmt) => Len(commands) >= 2 /\ commands[1] = CargoFmt /\ commands[2] = CargoCheck
    /\ Len(commands) \in 0..5
    /\ Len(commands) = 1 => ~Has(Tsc) /\ ~HasEslint

PlanDependenciesWitness ==
  /\ Planned
  /\ Has(Tsc) /\ HasEslint
  /\ \E i \in DOMAIN PrettierArgs : PrettierArgs[i] \notin Range(EslintArgs)

====
